---- MODULE Spec2Model ----
(***************************************************************************)
(* A model of ZeroTwo.py: the memory read (MemoryManager.get_context), the *)
(* three function tools (get_weather, search_web, send_email) run as       *)
(* coroutines of one asyncio event loop and sharing voice_lock, and the    *)
(* job entrypoint.                                                         *)
(*                                                                         *)
(* A Python string is a finite sequence of tokens; a token is a character  *)
(* or a fixed piece of text, so that concatenation, strip and join are     *)
(* computed and not assumed.                                               *)
(***************************************************************************)
EXTENDS Integers, Sequences, FiniteSets, TLC

\* Number of function-tool calls the runtime issues in a session.
MaxTasks == 2
\* Longest record list the memory service returns.
MaxRecords == 3

Tasks == 1..MaxTasks

---------------------------------------------------------------------------
\* Python values

\* Python's None, kept apart from every string (no string holds this token).
None == <<"<None>">>

\* Truth value of an Optional[str]: None and "" are falsy.
Truthy(s) == s # None /\ s # <<>>

IsSpace(c) == c \in {" ", "\n", "\t"}

RECURSIVE lstrip(_)
lstrip(s) == IF s # <<>> /\ IsSpace(Head(s)) THEN lstrip(Tail(s)) ELSE s

RECURSIVE rstrip(_)
rstrip(s) ==
    IF s # <<>> /\ IsSpace(s[Len(s)]) THEN rstrip(SubSeq(s, 1, Len(s) - 1)) ELSE s

\* str.strip() with no argument.
strip(s) == rstrip(lstrip(s))

\* What a tool coroutine hands back to the runtime: a returned string (raised
\* would mark an exception leaving the coroutine) and the SMTP calls it made.
Return(s) == [raised |-> FALSE, value |-> s, wire |-> <<>>]

---------------------------------------------------------------------------
\* MemoryManager.get_context

\* The prefix U+2022 BULLET followed by a space.
Bullet == <<"U+2022", " ">>
Newline == <<"\n">>

\* Mutant: the memories are collected last record first.
RECURSIVE Memories_reversed(_)
Memories_reversed(results) ==
    IF results = <<>> THEN <<>>
    ELSE LET r == Head(results)
         IN Memories_reversed(Tail(results))
                \o (IF "memory" \in DOMAIN r THEN <<r.memory>> ELSE <<>>)

\* [r["memory"] for r in results if "memory" in r]
RECURSIVE Memories(_)
Memories(results) ==
    IF results = <<>> THEN <<>>
    ELSE LET r == Head(results)
         IN (IF "memory" \in DOMAIN r THEN <<r.memory>> ELSE <<>>)
                \o Memories(Tail(results))

\* "\n".join(f"<bullet> {m}" for m in memories)
RECURSIVE JoinBullets(_)
JoinBullets(memories) ==
    IF memories = <<>> THEN <<>>
    ELSE IF Len(memories) = 1 THEN Bullet \o Head(memories)
    ELSE Bullet \o Head(memories) \o Newline \o JoinBullets(Tail(memories))

\* The result list get_context works on: search() answers a dict whose
\* "results" entry is read with a default of [], get_all() answers the list.
ResultsOf(query, resp) ==
    IF Truthy(query)
    THEN (IF "results" \in DOMAIN resp.body THEN resp.body.results ELSE <<>>)
    ELSE resp.body

get_context(query, resp) ==
    IF resp.exc THEN <<>>
    ELSE LET results == ResultsOf(query, resp)
         IN IF results = <<>> THEN <<>> ELSE JoinBullets(Memories(results))

\* The request get_context sends to the memory service.
MemoryRequest(query) ==
    IF Truthy(query) THEN [op |-> "search", query |-> query]
    ELSE [op |-> "get_all", query |-> None]

\* The request save_chat sends to the memory service.
save_chat(messages) == [op |-> "add", query |-> messages]

---------------------------------------------------------------------------
\* The tools: what each returns for an outcome of its network call

WeatherNon200Msg == <<"Weather ki jaankari abhi nahi mil pa rahi hai.">>
WeatherExcMsg == <<"Weather nikalte waqt thodi dikkat aa gayi.">>
SearchExcMsg == <<"Search karte waqt error aa gaya.">>
EmailNoCredsMsg == <<"Email sending failed: Gmail credentials not configured.">>
EmailAuthMsg == <<"Email sending failed: Authentication error.">>
EmailErrorPrefix == <<"An error occurred: ">>
EmailSentPrefix == <<"Email sent successfully to ">>

\* Mutant: the 200 body is returned without strip().
get_weather_untrimmed(out) ==
    IF out.exc # "none" THEN Return(WeatherExcMsg)
    ELSE IF out.status_code = 200 THEN Return(out.text)
    ELSE Return(WeatherNon200Msg)

\* Body of get_weather's try block, given what requests.get did.
get_weather(out) ==
    IF out.exc # "none" THEN Return(WeatherExcMsg)
    ELSE IF out.status_code = 200 THEN Return(strip(out.text))
    ELSE Return(WeatherNon200Msg)

\* Body of search_web's try block, given what DuckDuckGoSearchRun().run did.
search_web(out) ==
    IF out.exc # "none" THEN Return(SearchExcMsg) ELSE Return(out.text)

\* Mutant: `and` in place of `or`.
CredentialsMissing_and(environ) ==
    ~Truthy(environ.GMAIL_USER) /\ ~Truthy(environ.GMAIL_APP_PASSWORD)

\* if not gmail_user or not gmail_password
CredentialsMissing(environ) ==
    ~Truthy(environ.GMAIL_USER) \/ ~Truthy(environ.GMAIL_APP_PASSWORD)

\* Mutant: the Cc address is put in the header only, not in the envelope.
Recipients_without_cc(args) == <<args.to_email>>

\* recipients = [to_email]; if cc_email: recipients.append(cc_email)
Recipients(args) ==
    IF Truthy(args.cc_email) THEN <<args.to_email, args.cc_email>>
    ELSE <<args.to_email>>

\* The SMTP calls of send_email in program order.
SmtpSteps == <<"connect", "starttls", "login", "sendmail", "quit">>

StepIndex(name) == CHOOSE i \in 1..Len(SmtpSteps) : SmtpSteps[i] = name

\* The SMTP calls made when the call named out.failAt raises ("none": no call
\* raises): every call up to and including the failing one, each with whether
\* it succeeded; sendmail carries the envelope.
SmtpWire(environ, args, out) ==
    LET last == IF out.failAt = "none" THEN Len(SmtpSteps) ELSE StepIndex(out.failAt)
    IN [i \in 1..last |->
          [call |-> SmtpSteps[i],
           ok |-> (out.failAt = "none" \/ i < last),
           host |-> <<"smtp.gmail.com">>,
           port |-> 587,
           from_addr |-> environ.GMAIL_USER,
           to_addrs |-> IF SmtpSteps[i] = "sendmail" THEN Recipients(args) ELSE <<>>]]

\* send_email: the value returned and the SMTP calls made.
send_email(environ, args, out) ==
    IF CredentialsMissing(environ)
    THEN Return(EmailNoCredsMsg)
    ELSE [raised |-> FALSE,
          value |-> IF out.failAt = "none" THEN EmailSentPrefix \o args.to_email
                    ELSE IF out.exc = "SMTPAuthenticationError" THEN EmailAuthMsg
                    ELSE EmailErrorPrefix \o out.text,
          wire |-> SmtpWire(environ, args, out)]

---------------------------------------------------------------------------
\* Inputs

\* Records of the memory service: with and without a "memory" field.
MemoryTexts == {<<"likes tea">>, <<"works nights">>}
Records == [id : {"m"}, memory : MemoryTexts] \cup [id : {"m"}]

RECURSIVE SeqsUpTo(_, _)
SeqsUpTo(S, n) ==
    IF n = 0 THEN {<<>>}
    ELSE LET shorter == SeqsUpTo(S, n - 1)
         IN shorter \cup {Append(q, x) : q \in shorter, x \in S}

RecordLists == SeqsUpTo(Records, MaxRecords)

MemoryFailure == [exc |-> TRUE, body |-> <<>>]

\* What client.get_all(user_id=...) does: raises, or answers a record list.
GetAllResponses == {MemoryFailure} \cup [exc : {FALSE}, body : RecordLists]

\* What client.search(query=..., filters=...) does: raises, or answers a dict
\* that may or may not hold "results".
SearchResponses ==
    {MemoryFailure}
        \cup [exc : {FALSE}, body : [results : RecordLists]]
        \cup {[exc |-> FALSE, body |-> [message |-> "ok"]]}

QueryValues == {None, <<>>, <<"tea">>}

ResponsesFor(query) == IF Truthy(query) THEN SearchResponses ELSE GetAllResponses

\* What the service answers at persona construction of the modelled session.
SessionResponses == {r \in GetAllResponses : Len(r.body) <= 1}

Environments ==
    [GMAIL_USER : {None, <<>>, <<"me@gmail.com">>},
     GMAIL_APP_PASSWORD : {None, <<>>, <<"app-password">>},
     MEM0_API_KEY : {None, <<"m0-key">>}]

ToolCalls ==
    [tool : {"get_weather"}, city : {<<"Delhi">>}]
        \cup [tool : {"search_web"}, query : {<<"anime">>}]
        \cup [tool : {"send_email"}, to_email : {<<"a@x.io">>},
              cc_email : {None, <<>>, <<"c@x.io">>},
              subject : {<<"hi">>}, message : {<<"body">>}]

WeatherBodies == {<<"Delhi: +31C", "\n">>, <<" ", "\n">>}

\* An outcome of a network call: the exception class it raised ("none": it
\* returned), the call that raised, and the status and text it answered.

\* What requests.get does: raises, or answers a status and a body.
WeatherOutcomes ==
    {[exc |-> "Exception", failAt |-> "get", status_code |-> 0, text |-> <<>>]}
        \cup [exc : {"none"}, failAt : {"none"}, status_code : {200, 404},
              text : WeatherBodies]

\* What DuckDuckGoSearchRun().run does: raises, or answers text.
SearchOutcomes ==
    {[exc |-> "Exception", failAt |-> "run", status_code |-> 0, text |-> <<>>],
     [exc |-> "none", failAt |-> "none", status_code |-> 0,
      text |-> <<" ", "Zero Two", "\n">>]}

\* What the SMTP conversation does: every call succeeds, or one call raises;
\* smtplib raises SMTPAuthenticationError from login only.
SmtpOutcomes ==
    {[failAt |-> "none", exc |-> "none", status_code |-> 0, text |-> <<>>]}
        \cup [failAt : {SmtpSteps[i] : i \in 1..Len(SmtpSteps)},
              exc : {"Exception"}, status_code : {0}, text : {<<"timed out">>}]
        \cup {[failAt |-> "login", exc |-> "SMTPAuthenticationError",
               status_code |-> 0, text |-> <<"535">>]}

OutcomesOf(tool) ==
    CASE tool = "get_weather" -> WeatherOutcomes
      [] tool = "search_web" -> SearchOutcomes
      [] tool = "send_email" -> SmtpOutcomes
      [] OTHER -> {}

\* What the coroutine of `c` returns when its network call did `out`.
ToolResult(environ, c, out) ==
    CASE c.tool = "get_weather" -> get_weather(out)
      [] c.tool = "search_web" -> search_web(out)
      [] c.tool = "send_email" -> send_email(environ, c, out)

---------------------------------------------------------------------------
\* State

VARIABLES
    env,           \* os.environ after load_dotenv()
    epc,           \* entrypoint: "init", "running", "done" or "crashed"
    crashAt,       \* the call whose exception left entrypoint, if any
    instructions,  \* Assistant's combined_instructions (None before it is built)
    memlog,        \* requests sent to the memory service, in order
    issued,        \* runtime calls entrypoint has awaited so far, in order
    completed,     \* those of them that have returned
    pc,            \* per tool task: idle, ready, waiting, woken, in_net, returned, raised
    call,          \* per tool task: the function call it runs
    outcome,       \* per tool task: what its network call did
    result,        \* per tool task: what the coroutine returned
    locked,        \* voice_lock._locked
    waiters,       \* voice_lock._waiters, oldest first
    running,       \* the task holding the event-loop thread inside a synchronous call
    ctx            \* a stand-alone get_context call: its input and result

vars == <<env, epc, crashAt, instructions, memlog, issued, completed,
          pc, call, outcome, result, locked, waiters, running, ctx>>

entryVars == <<epc, crashAt, instructions, memlog, issued, completed>>
taskVars == <<pc, call, outcome, result, locked, waiters, running>>

NoCall == [tool |-> "none"]
NoOutcome == [failAt |-> "unset", exc |-> "unset", status_code |-> 0, text |-> <<>>]
NoResult == [raised |-> FALSE, value |-> None, wire |-> <<>>]
NoCtx == [pc |-> "off", query |-> None, resp |-> MemoryFailure, request |-> None,
          result |-> None]

AGENT_INSTRUCTION == <<"AGENT_INSTRUCTION">>
SESSION_INSTRUCTION == <<"SESSION_INSTRUCTION">>

\* f"{AGENT_INSTRUCTION}\n\n# PAST USER CONTEXT:\n{past_context}"
CombinedInstructions(past_context) ==
    AGENT_INSTRUCTION \o <<"\n", "\n", "# PAST USER CONTEXT:", "\n">> \o past_context

Init ==
    /\ env \in Environments
    /\ epc = "init"
    /\ crashAt = "none"
    /\ instructions = None
    /\ memlog = <<>>
    /\ issued = <<>>
    /\ completed = <<>>
    /\ pc = [t \in Tasks |-> "idle"]
    /\ call = [t \in Tasks |-> NoCall]
    /\ outcome = [t \in Tasks |-> NoOutcome]
    /\ result = [t \in Tasks |-> NoResult]
    /\ locked = FALSE
    /\ waiters = <<>>
    /\ running = {}
    /\ ctx = NoCtx

---------------------------------------------------------------------------
\* entrypoint

\* What MemoryManager(user_id) and get_context() meet at persona construction:
\* MemoryClient() raises or returns a client, then get_all raises or answers.
\* Without MEM0_API_KEY nothing succeeds: the constructor raises, or the
\* request fails.
MemoryOutcomes(environ) ==
    {m \in [client : {"ok", "raise"}, resp : SessionResponses] :
        Truthy(environ.MEM0_API_KEY) \/ m.client = "raise" \/ m.resp.exc}

\* Mutant: the greeting is generated before the room is connected.
Awaits_greet_before_connect(instr) ==
    <<[fn |-> "session.start", arg |-> instr],
      [fn |-> "generate_reply", arg |-> SESSION_INSTRUCTION],
      [fn |-> "ctx.connect", arg |-> None]>>

\* The calls entrypoint awaits, in program order, with their argument.
Awaits(instr) ==
    <<[fn |-> "session.start", arg |-> instr],
      [fn |-> "ctx.connect", arg |-> None],
      [fn |-> "generate_reply", arg |-> SESSION_INSTRUCTION]>>

\* Mutant: the commented-out save_chat call is live.
SessionEnd_save_chat(log) == Append(log, save_chat(<<"chat_history">>))

\* What entrypoint does with the memory service after the greeting: nothing
\* (the save_chat call is commented out).
SessionEnd(log) == log

Range(q) == {q[i] : i \in 1..Len(q)}

\* The session has been started and the job has not failed.
SessionRunning ==
    /\ epc \in {"running", "done"}
    /\ \E e \in Range(completed) : e.fn = "session.start"

\* entrypoint up to its first await: Assistant(user_id) builds the memory
\* manager, reads the memory and builds the instructions; then session.start
\* is awaited.
EntryBegin(m, agent_ok) ==
    /\ epc = "init"
    /\ running = {}
    /\ IF m.client = "raise"
       THEN /\ epc' = "crashed"
            /\ crashAt' = "MemoryClient"
            /\ UNCHANGED <<instructions, memlog, issued>>
       ELSE /\ memlog' = Append(memlog, MemoryRequest(None))
            /\ instructions' = CombinedInstructions(get_context(None, m.resp))
            /\ IF agent_ok
               THEN /\ epc' = "running"
                    /\ issued' = <<Awaits(instructions')[1]>>
                    /\ UNCHANGED crashAt
               ELSE /\ epc' = "crashed"
                    /\ crashAt' = "Agent.__init__"
                    /\ UNCHANGED issued
    /\ UNCHANGED <<env, completed, ctx>>
    /\ UNCHANGED taskVars

\* The awaited call returns (ok) or raises; entrypoint runs on to its next
\* await, or to its end.
EntryStep(ok) ==
    /\ epc = "running"
    /\ running = {}
    /\ Len(completed) < Len(issued)
    /\ LET cur == issued[Len(issued)]
           plan == Awaits(instructions)
       IN IF ~ok
          THEN /\ epc' = "crashed"
               /\ crashAt' = cur.fn
               /\ UNCHANGED <<issued, completed, memlog>>
          ELSE /\ completed' = Append(completed, cur)
               /\ UNCHANGED crashAt
               /\ IF Len(issued) < Len(plan)
                  THEN /\ issued' = Append(issued, plan[Len(issued) + 1])
                       /\ UNCHANGED <<epc, memlog>>
                  ELSE /\ epc' = "done"
                       /\ memlog' = SessionEnd(memlog)
                       /\ UNCHANGED issued
    /\ UNCHANGED <<env, instructions, ctx>>
    /\ UNCHANGED taskVars

---------------------------------------------------------------------------
\* Tool tasks on the event loop

\* Mutant: the request is awaited (off the loop thread) outside the lock.
ToolShape_awaited_outside_lock(tool) == [guarded |-> FALSE, blocking |-> FALSE]

\* How a tool issues its network call: inside `async with voice_lock` or not,
\* and synchronously (the coroutine keeps the event-loop thread until the call
\* returns) or awaited.
ToolShape(tool) ==
    [guarded |-> tool \in {"get_weather", "search_web"}, blocking |-> TRUE]

\* Mutant: acquire()/release() by hand, the release skipped on the except path.
ReleasesLock_not_on_exception(tool, out) ==
    ToolShape(tool).guarded /\ out.exc = "none"

\* `async with` releases the lock on every way out of its block.
ReleasesLock(tool, out) == ToolShape(tool).guarded

\* The runtime creates a task for a function call of the model.
Invoke(t, c) ==
    /\ SessionRunning
    /\ running = {}
    /\ pc[t] = "idle"
    /\ \A u \in Tasks : u < t => pc[u] # "idle"
    /\ pc' = [pc EXCEPT ![t] = "ready"]
    /\ call' = [call EXCEPT ![t] = c]
    /\ UNCHANGED <<outcome, result, locked, waiters, running>>
    /\ UNCHANGED <<env, ctx>>
    /\ UNCHANGED entryVars

\* A task may be resumed: the loop thread is free and the task is runnable.
Runnable(t) == running = {} /\ pc[t] \in {"ready", "woken"}

\* The event loop resumes task t, which runs to its next suspension: it
\* returns at once (send_email without credentials), parks on the lock
\* (Lock.acquire with the lock taken or other waiters queued), or enters its
\* network call.
Resume(t) ==
    /\ Runnable(t)
    /\ LET c == call[t]
           shape == ToolShape(c.tool)
       IN IF c.tool = "send_email" /\ CredentialsMissing(env)
          THEN /\ result' = [result EXCEPT ![t] = send_email(env, c, NoOutcome)]
               /\ pc' = [pc EXCEPT ![t] = "returned"]
               /\ UNCHANGED <<outcome, locked, waiters, running>>
          ELSE IF shape.guarded /\ pc[t] = "ready" /\ (locked \/ waiters # <<>>)
          THEN /\ waiters' = Append(waiters, t)
               /\ pc' = [pc EXCEPT ![t] = "waiting"]
               /\ UNCHANGED <<outcome, result, locked, running>>
          ELSE /\ locked' = (locked \/ shape.guarded)
               /\ waiters' = SelectSeq(waiters, LAMBDA w : w # t)
               /\ pc' = [pc EXCEPT ![t] = "in_net"]
               /\ running' = IF shape.blocking THEN {t} ELSE {}
               /\ UNCHANGED <<outcome, result>>
    /\ UNCHANGED call
    /\ UNCHANGED <<env, ctx>>
    /\ UNCHANGED entryVars

\* The network call of task t ends with `out`; the coroutine runs to its end,
\* leaving the `async with` block (Lock.release wakes the oldest waiter).
NetReturn(t, out) ==
    /\ pc[t] = "in_net"
    /\ running = IF ToolShape(call[t].tool).blocking THEN {t} ELSE {}
    /\ LET res == ToolResult(env, call[t], out)
           rel == ReleasesLock(call[t].tool, out)
           wake == IF rel /\ waiters # <<>> THEN {Head(waiters)} ELSE {}
       IN /\ outcome' = [outcome EXCEPT ![t] = out]
          /\ result' = [result EXCEPT ![t] = res]
          /\ locked' = (locked /\ ~rel)
          /\ pc' = [u \in Tasks |->
                      IF u = t THEN (IF res.raised THEN "raised" ELSE "returned")
                      ELSE IF u \in wake /\ pc[u] = "waiting" THEN "woken"
                      ELSE pc[u]]
    /\ running' = {}
    /\ UNCHANGED <<call, waiters>>
    /\ UNCHANGED <<env, ctx>>
    /\ UNCHANGED entryVars

Next ==
    \/ \E m \in MemoryOutcomes(env), agent_ok \in BOOLEAN : EntryBegin(m, agent_ok)
    \/ \E ok \in BOOLEAN : EntryStep(ok)
    \/ \E t \in Tasks, c \in ToolCalls : Invoke(t, c)
    \/ \E t \in Tasks : Resume(t)
    \/ \E t \in Tasks : \E out \in OutcomesOf(call[t].tool) : NetReturn(t, out)

Spec == Init /\ [][Next]_vars

---------------------------------------------------------------------------
\* get_context on its own: every query and every answer of the service

CtxInputs ==
    UNION {{[pc |-> "call", query |-> q, resp |-> r, request |-> None, result |-> None] :
               r \in ResponsesFor(q)} : q \in QueryValues}

InitCtx ==
    /\ env \in {e \in Environments : Truthy(e.MEM0_API_KEY) /\ ~CredentialsMissing(e)}
    /\ epc = "init"
    /\ crashAt = "none"
    /\ instructions = None
    /\ memlog = <<>>
    /\ issued = <<>>
    /\ completed = <<>>
    /\ pc = [t \in Tasks |-> "idle"]
    /\ call = [t \in Tasks |-> NoCall]
    /\ outcome = [t \in Tasks |-> NoOutcome]
    /\ result = [t \in Tasks |-> NoResult]
    /\ locked = FALSE
    /\ waiters = <<>>
    /\ running = {}
    /\ ctx \in CtxInputs

\* One call of get_context(query) against a service that answers ctx.resp.
CtxCall ==
    /\ ctx.pc = "call"
    /\ ctx' = [ctx EXCEPT !.pc = "done",
                          !.request = MemoryRequest(ctx.query),
                          !.result = get_context(ctx.query, ctx.resp)]
    /\ UNCHANGED <<env, epc, crashAt, instructions, memlog, issued, completed>>
    /\ UNCHANGED taskVars

NextCtx == CtxCall

SpecCtx == InitCtx /\ [][NextCtx]_vars

---------------------------------------------------------------------------
\* Vocabulary of the properties

UsesVoiceLock(t) == call[t].tool \in {"get_weather", "search_web"}
InNetworkCall(t) == pc[t] = "in_net"
Finished(t) == pc[t] \in {"returned", "raised"}
IsEmail(t) == call[t].tool = "send_email"
IsWeather(t) == call[t].tool = "get_weather"

\* An environment value that is absent or empty.
Absent(v) == v = None \/ Len(v) = 0

\* v is s without its leading and trailing whitespace.
IsTrimOf(v, s) ==
    /\ Len(v) = 0 \/ (~IsSpace(v[1]) /\ ~IsSpace(v[Len(v)]))
    /\ \E i \in 0..Len(s) :
          /\ i + Len(v) <= Len(s)
          /\ \A k \in 1..Len(v) : s[i + k] = v[k]
          /\ \A k \in 1..Len(s) : (k <= i \/ k > i + Len(v)) => IsSpace(s[k])

---------------------------------------------------------------------------
\* C1: of the get_weather and search_web tasks, at most one is inside its
\* network call in any reachable state, whatever the pair of tools.
C1_NetworkCallsNeverOverlap ==
    \A t \in Tasks, u \in Tasks :
        (t # u /\ UsesVoiceLock(t) /\ UsesVoiceLock(u) /\ InNetworkCall(t))
            => ~InNetworkCall(u)

\* A get_weather call is inside its request while a search_web call, invoked
\* in the same turn, is pending.
C1_Witness ==
    \E t \in Tasks, u \in Tasks :
        /\ IsWeather(t) /\ InNetworkCall(t)
        /\ call[u].tool = "search_web" /\ pc[u] = "ready"

\* C2: a send_email task that is pending while a get_weather task holds the
\* lock with its request outstanding is not held up: it can be resumed at once.
C2_EmailNotHeldUpByWeather ==
    \A e \in Tasks, w \in Tasks :
        (IsEmail(e) /\ pc[e] = "ready" /\ IsWeather(w) /\ InNetworkCall(w) /\ locked)
            => Runnable(e)

\* C3 as stated: get_weather never raises and returns the trimmed 200 body or
\* one and the same apology string for a non-200 status and for an exception.
C3_OneApologyString ==
    \E apology \in {WeatherNon200Msg, WeatherExcMsg} :
        \A t \in Tasks :
            (IsWeather(t) /\ Finished(t)) =>
                /\ pc[t] = "returned"
                /\ IF outcome[t].exc = "none" /\ outcome[t].status_code = 200
                   THEN IsTrimOf(result[t].value, outcome[t].text)
                   ELSE result[t].value = apology

\* C3 as amended: get_weather never raises and returns the trimmed body of a
\* 200 response, one fixed apology string for a non-200 status, and another
\* fixed apology string for an exception of the request.
C3_WeatherResult ==
    \A t \in Tasks :
        IsWeather(t) =>
            /\ pc[t] # "raised"
            /\ pc[t] = "returned" =>
                  IF outcome[t].exc # "none"
                  THEN result[t].value = <<"Weather nikalte waqt thodi dikkat aa gayi.">>
                  ELSE IF outcome[t].status_code = 200
                  THEN IsTrimOf(result[t].value, outcome[t].text)
                  ELSE result[t].value = <<"Weather ki jaankari abhi nahi mil pa rahi hai.">>

\* A 200 response whose body had whitespace to trim has been returned, and
\* another get_weather call has returned the exception apology.
C3_Witness ==
    \E t \in Tasks, u \in Tasks :
        /\ IsWeather(t) /\ pc[t] = "returned" /\ outcome[t].exc = "none"
        /\ outcome[t].status_code = 200
        /\ result[t].value # outcome[t].text /\ Len(result[t].value) > 0
        /\ IsWeather(u) /\ pc[u] = "returned" /\ outcome[u].exc # "none"

\* C4: with GMAIL_USER or GMAIL_APP_PASSWORD absent or empty, send_email never
\* enters the SMTP conversation and never raises; it returns the
\* configuration-error string having made no SMTP call.
C4_MissingCredentials ==
    \A t \in Tasks :
        (IsEmail(t) /\ (Absent(env.GMAIL_USER) \/ Absent(env.GMAIL_APP_PASSWORD))) =>
            /\ pc[t] \notin {"in_net", "raised"}
            /\ pc[t] = "returned" =>
                  /\ result[t].value
                        = <<"Email sending failed: Gmail credentials not configured.">>
                  /\ Len(result[t].wire) = 0

\* send_email has returned with the user set and the password absent.
C4_Witness ==
    \E t \in Tasks :
        /\ IsEmail(t) /\ pc[t] = "returned"
        /\ ~Absent(env.GMAIL_USER) /\ Absent(env.GMAIL_APP_PASSWORD)

\* The SMTP calls of result r that succeeded, by name.
CallsDone(r) == {r.wire[i].call : i \in {j \in 1..Len(r.wire) : r.wire[j].ok}}

\* The envelope the claim expects: To, then Cc when a Cc address is given.
ExpectedEnvelope(c) ==
    IF Absent(c.cc_email) THEN <<c.to_email>> ELSE <<c.to_email, c.cc_email>>

\* C5: with both credentials present send_email never raises; an
\* authentication failure at login gives the authentication-error string, any
\* other exception of an SMTP call gives the generic string with the
\* exception text, and the confirmation naming to_email is returned exactly
\* when all five calls succeeded, sendmail having had the envelope
\* [to_email] plus cc_email when given.
C5_SendEmailResult ==
    \A t \in Tasks :
        (IsEmail(t) /\ ~Absent(env.GMAIL_USER) /\ ~Absent(env.GMAIL_APP_PASSWORD)) =>
            /\ pc[t] # "raised"
            /\ pc[t] = "returned" =>
                  LET o == outcome[t]
                      r == result[t]
                      confirmation == <<"Email sent successfully to ">> \o call[t].to_email
                  IN /\ (o.failAt = "login" /\ o.exc = "SMTPAuthenticationError")
                            => r.value = <<"Email sending failed: Authentication error.">>
                     /\ (o.failAt # "none" /\ o.exc # "SMTPAuthenticationError")
                            => r.value = <<"An error occurred: ">> \o o.text
                     /\ (r.value = confirmation) <=>
                            CallsDone(r) = {"connect", "starttls", "login", "sendmail", "quit"}
                     /\ (r.value = confirmation) =>
                            \E i \in 1..Len(r.wire) :
                                /\ r.wire[i].call = "sendmail"
                                /\ r.wire[i].to_addrs = ExpectedEnvelope(call[t])
                                /\ \A j \in 1..Len(r.wire) :
                                      r.wire[j].call = "sendmail" => j = i

\* An email with a Cc address has been sent and confirmed.
C5_Witness ==
    \E t \in Tasks :
        /\ IsEmail(t) /\ pc[t] = "returned"
        /\ ~Absent(call[t].cc_email)
        /\ outcome[t].failAt = "none"
        /\ Len(result[t].wire) = 5

---------------------------------------------------------------------------
\* The lines of a text: its pieces between "\n" tokens.
RECURSIVE SplitLines(_)
SplitLines(s) ==
    IF \A k \in 1..Len(s) : s[k] # "\n" THEN <<s>>
    ELSE LET k == CHOOSE j \in 1..Len(s) :
                    s[j] = "\n" /\ \A h \in 1..(j - 1) : s[h] # "\n"
         IN <<SubSeq(s, 1, k - 1)>> \o SplitLines(SubSeq(s, k + 1, Len(s)))

\* The records the service returned to the stand-alone get_context call.
CtxRecords ==
    IF ctx.resp.exc THEN <<>>
    ELSE IF Absent(ctx.query) THEN ctx.resp.body
    ELSE IF "results" \in DOMAIN ctx.resp.body THEN ctx.resp.body.results
    ELSE <<>>

CtxWithMemory == SelectSeq(CtxRecords, LAMBDA r : "memory" \in DOMAIN r)

\* C6: get_context returns one line per record that has a memory field, each
\* the bullet prefix followed by the memory text, in the order the service
\* returned the records; it returns the empty string exactly when the call
\* failed, the result set is empty or no record has a memory field.
C6_GetContextRendering ==
    ctx.pc = "done" =>
        /\ (Len(ctx.result) = 0) <=> (Len(CtxWithMemory) = 0)
        /\ Len(CtxWithMemory) > 0 =>
              LET lines == SplitLines(ctx.result)
              IN /\ Len(lines) = Len(CtxWithMemory)
                 /\ \A i \in 1..Len(lines) :
                       lines[i] = <<"U+2022", " ">> \o CtxWithMemory[i].memory

\* get_context has rendered two different memories around or beside a record
\* that has no memory field.
C6_Witness ==
    /\ ctx.pc = "done"
    /\ Len(CtxRecords) > Len(CtxWithMemory)
    /\ Len(CtxWithMemory) = 2
    /\ CtxWithMemory[1].memory # CtxWithMemory[2].memory
    /\ Len(ctx.result) > 0

\* C7: no failure of the memory service at persona construction leaves
\* entrypoint: it is caught in the memory component, and entrypoint is never
\* abandoned in MemoryManager.
C7_MemoryFailureNeverEndsEntrypoint ==
    ~(epc = "crashed" /\ crashAt = "MemoryClient")

Fns(q) == [i \in 1..Len(q) |-> q[i].fn]

IsPrefix(p, q) == Len(p) <= Len(q) /\ \A i \in 1..Len(p) : p[i] = q[i]

EntrypointOrder == <<"session.start", "ctx.connect", "generate_reply">>

\* The state part of C8.
C8_Order ==
    /\ IsPrefix(Fns(issued), EntrypointOrder)
    /\ IsPrefix(Fns(completed), Fns(issued))
    /\ Len(issued) <= Len(completed) + 1
    /\ Len(issued) > 0 =>
          /\ instructions # None
          /\ issued[1].arg = instructions
          /\ memlog = <<[op |-> "get_all", query |-> None]>>
    /\ \A i \in 1..Len(issued) :
          issued[i].fn = "generate_reply" =>
              /\ issued[i].arg = <<"SESSION_INSTRUCTION">>
              /\ \E j \in 1..Len(completed) : completed[j].fn = "session.start"
              /\ \E j \in 1..Len(completed) : completed[j].fn = "ctx.connect"
    /\ epc = "done" => Fns(completed) = EntrypointOrder

\* C8: entrypoint awaits session.start, ctx.connect and generate_reply in
\* this order, each at most once and each only after the one before it has
\* returned; the instruction text, built from one fetch-all memory read, is
\* what the session is started with; the one greeting carries the session
\* instructions and is issued after start and connect; and once the session
\* start has been issued the instruction text never changes.
C8_EntrypointSequence ==
    /\ []C8_Order
    /\ [][Len(issued) > 0 => instructions' = instructions]_vars

\* entrypoint has run to its end while a tool call was served.
C8_Witness ==
    /\ epc = "done"
    /\ Len(issued) = 3
    /\ \E t \in Tasks : pc[t] = "returned"

\* C9: the memory service is never written: no add request is ever sent, and
\* the only request is the one fetch-all read of persona construction.
C9_MemoryNeverWritten ==
    /\ Len(memlog) <= 1
    /\ \A i \in 1..Len(memlog) : memlog[i].op = "get_all"
    /\ ctx.request = None

\* entrypoint is done, every tool has been used, and the memory service has
\* seen its one read.
C9_Witness ==
    /\ epc = "done"
    /\ Len(memlog) = 1
    /\ \E t \in Tasks : IsEmail(t) /\ Finished(t)
    /\ \E t \in Tasks : UsesVoiceLock(t) /\ Finished(t)

---------------------------------------------------------------------------
\* A session whose environment holds every key.
InitConfigured ==
    /\ Init
    /\ Truthy(env.GMAIL_USER)
    /\ Truthy(env.GMAIL_APP_PASSWORD)
    /\ Truthy(env.MEM0_API_KEY)

\* The steps of Next, the emails being those without a Cc address.
NextFair ==
    \/ \E m \in MemoryOutcomes(env), agent_ok \in BOOLEAN : EntryBegin(m, agent_ok)
    \/ \E ok \in BOOLEAN : EntryStep(ok)
    \/ \E t \in Tasks, c \in {d \in ToolCalls : d.tool = "send_email" => d.cc_email = None} :
          Invoke(t, c)
    \/ \E t \in Tasks : Resume(t)
    \/ \E t \in Tasks : \E out \in OutcomesOf(call[t].tool) : NetReturn(t, out)

\* Fairness: the event loop resumes every runnable task, and every network
\* call returns or fails.
FairSpec ==
    /\ InitConfigured
    /\ [][NextFair]_vars
    /\ \A t \in Tasks : WF_vars(Resume(t))
    /\ \A t \in Tasks : WF_vars(\E out \in OutcomesOf(call[t].tool) : NetReturn(t, out))

\* A get_weather or search_web call has started and not finished.
InProgress(t) == UsesVoiceLock(t) /\ pc[t] \in {"waiting", "woken", "in_net"}

\* C10: the lock is free whenever no get_weather or search_web call is in
\* progress, and every invoked get_weather and search_web call eventually
\* returns.
C10_LockReleasedAndCallsReturn ==
    /\ []((\A t \in Tasks : ~InProgress(t)) => ~locked)
    /\ \A t \in Tasks :
          (UsesVoiceLock(t) /\ pc[t] = "ready") ~> (pc[t] = "returned")

\* Two calls under the lock have both returned, the first by the except path,
\* and the lock is free.
C10_Witness ==
    \E t \in Tasks, u \in Tasks :
        /\ t # u
        /\ UsesVoiceLock(t) /\ pc[t] = "returned" /\ outcome[t].exc # "none"
        /\ UsesVoiceLock(u) /\ pc[u] = "returned"
        /\ ~locked

====
